---- MODULE Spec2Model ----
(***************************************************************************)
(* Model of tools/asset_cooker/asset_cooker.py: the extension registry,    *)
(* the four processors, AssetCooker.cook_asset / cook_directory and        *)
(* AssetCooker.generate_asset_manifest, acting on a file system.           *)
(*                                                                         *)
(* A path is a record [dir, name]: dir is the sequence of directory        *)
(* components, name the sequence of the dot-separated segments of the file *)
(* name (a.png is <<"a","png">>, manifest.json.png is                      *)
(* <<"manifest","json","png">>).  A suffix is written without its dot, ""  *)
(* is pathlib's empty suffix.                                              *)
(***************************************************************************)
EXTENDS Naturals, Sequences, FiniteSets, TLC

VARIABLES
    fs,               \* the regular files: path -> content
    dirs,             \* the directories that exist
    pc,               \* "idle", or "cooking" inside cook_directory's loop
    input_dir,        \* cook_directory's arguments of the current/last run
    output_dir,
    recursive,
    files,            \* the list `files` of the run, as the set it enumerates
    visited,          \* the files the for-loop has already iterated over
    log,              \* the cook_asset calls of the run: file -> output path, processor, result, number of calls
    processed_count,
    failed_count,
    fsAtStart,        \* history: fs when the current/last run started
    written,          \* history: sidecars the current/last run wrote, path -> content
    prev,             \* history: the run completed before the current/last one
    cookedBy,         \* history: cooked output path -> the input and processor of its latest successful cook
    last,             \* history: the operation that completed last
    nops,             \* operations started so far
    nfaults           \* transient I/O faults injected so far

vars == <<fs, dirs, pc, input_dir, output_dir, recursive, files, visited, log,
          processed_count, failed_count, fsAtStart, written, prev, cookedBy,
          last, nops, nfaults>>

----------------------------------------------------------------------------
(* Bounds of the model *)

MaxFiles == 2       \* files in the initial input tree
MaxOps == 2         \* operations (cook_directory, cook_asset, manifest) per behaviour
MaxFaults == 1      \* transient I/O faults per behaviour
MaxFairOps == 1     \* operations per behaviour of FairSpec

----------------------------------------------------------------------------
(* pathlib *)

\* str.lower() on the suffixes of the model's alphabet
Lower(s) ==
    CASE s = "PNG" -> "png"
      [] s = "JSON" -> "json"
      [] s = "FRAG" -> "frag"
      [] OTHER -> s

\* PurePath.suffix
Suffix(name) == IF Len(name) >= 2 THEN name[Len(name)] ELSE ""

\* PurePath.with_suffix(s)
with_suffix(name, s) ==
    LET stem == IF Len(name) >= 2 THEN SubSeq(name, 1, Len(name) - 1) ELSE name
    IN  IF s = "" THEN stem ELSE Append(stem, s)

IsPrefix(d, e) == Len(d) <= Len(e) /\ SubSeq(e, 1, Len(d)) = d

\* PurePath.relative_to on the directory part
relative_to(d, base) == SubSeq(d, Len(base) + 1, Len(d))

\* the directory and every ancestor of it: what mkdir(parents=True) ensures
Parents(d) == {SubSeq(d, 1, k) : k \in 1..Len(d)}

Path(d, n) == [dir |-> d, name |-> n]

----------------------------------------------------------------------------
(* File contents *)

Image(mode, w, h) == [t |-> "data", kind |-> "image", mode |-> mode, w |-> w, h |-> h]
Text == [t |-> "data", kind |-> "text", mode |-> "", w |-> 0, h |-> 0]
Junk == [t |-> "data", kind |-> "junk", mode |-> "", w |-> 0, h |-> 0]

\* Image.open succeeds on it
Decodes(c) == c.t = "data" /\ c.kind = "image"
\* open(path, 'r').read() succeeds on it (it is valid text)
ReadsAsText(c) == c.t # "data" \/ c.kind = "text"
\* json.load succeeds on it and yields an object
ParsesAsJson(c) == c.t \in {"meta", "manifest"}

----------------------------------------------------------------------------
(* The registry: AssetProcessor.can_process, AssetCooker.get_processor *)

processors == <<"texture", "model", "audio", "shader">>

supported_extensions(p) ==
    CASE p = "texture" -> {"png", "jpg", "jpeg", "bmp", "tga"}
      [] p = "model"   -> {"obj", "gltf", "glb", "fbx"}
      [] p = "audio"   -> {"wav", "mp3", "ogg", "flac"}
      [] p = "shader"  -> {"vert", "frag", "geom", "tesc", "tese", "comp"}

\* (variant) the suffix is compared as written
can_process_case_sensitive(p, name) == Suffix(name) \in supported_extensions(p)

can_process(p, name) == Lower(Suffix(name)) \in supported_extensions(p)

\* the first processor of the list that can process the file, "none" for None
get_processor(name) ==
    LET hits == {i \in 1..Len(processors) : can_process(processors[i], name)}
    IN  IF hits = {} THEN "none"
        ELSE processors[CHOOSE i \in hits : \A j \in hits : i <= j]

_get_shader_type(ext) ==
    CASE Lower(ext) = "vert" -> "vertex"
      [] Lower(ext) = "frag" -> "fragment"
      [] Lower(ext) = "geom" -> "geometry"
      [] Lower(ext) = "tesc" -> "tessellation_control"
      [] Lower(ext) = "tese" -> "tessellation_evaluation"
      [] Lower(ext) = "comp" -> "compute"
      [] OTHER -> "unknown"

----------------------------------------------------------------------------
(* The processors.  Each operator is one call of process(input_path,        *)
(* output_path) on the file system (F, D) and yields the file system it     *)
(* leaves and the boolean it returns.  fault is the I/O step that raises in *)
(* this call: "none", "read" (reading the source), "write" (writing the     *)
(* cooked file) or "meta" (writing the sidecar); the except clause turns    *)
(* any of them into False.                                                  *)

Faults == {"none", "read", "write", "meta"}

Result(F, D, ok) == [fs |-> F, dirs |-> D, ok |-> ok]

Put(F, p, c) == (p :> c) @@ F

\* output_path.with_suffix('.json')
metadata_path(op) == Path(op.dir, with_suffix(op.name, "json"))

TextureMetadata(ip, img) ==
    [t |-> "meta", type |-> "texture", format |-> "rgba8", width |-> img.w,
     height |-> img.h, shader_type |-> "", source |-> ip]

ModelMetadata(ip) ==
    [t |-> "meta", type |-> "model", format |-> Lower(Suffix(ip.name)), width |-> 0,
     height |-> 0, shader_type |-> "", source |-> ip]

AudioMetadata(ip) ==
    [t |-> "meta", type |-> "audio", format |-> Lower(Suffix(ip.name)), width |-> 0,
     height |-> 0, shader_type |-> "", source |-> ip]

ShaderMetadata(ip) ==
    [t |-> "meta", type |-> "shader", format |-> "", width |-> 0,
     height |-> 0, shader_type |-> _get_shader_type(Suffix(ip.name)), source |-> ip]

TextureProcess(F, D, ip, op, fault) ==
    IF fault = "read" \/ ~Decodes(F[ip]) THEN Result(F, D, FALSE)
    ELSE LET image == Image("RGBA", F[ip].w, F[ip].h)
             D1 == D \cup Parents(op.dir)
             F1 == Put(F, op, image)
         IN  IF fault = "write" THEN Result(F, D1, FALSE)
             ELSE IF fault = "meta" THEN Result(F1, D1, FALSE)
             ELSE Result(Put(F1, metadata_path(op), TextureMetadata(ip, image)), D1, TRUE)

\* ModelProcessor.process and AudioProcessor.process: mkdir, shutil.copy2
\* (which raises SameFileError when source and destination are one file),
\* sidecar
CopyProcess(F, D, ip, op, fault, metadata) ==
    LET D1 == D \cup Parents(op.dir)
        F1 == Put(F, op, F[ip])
    IN  IF fault \in {"read", "write"} \/ ip = op THEN Result(F, D1, FALSE)
        ELSE IF fault = "meta" THEN Result(F1, D1, FALSE)
        ELSE Result(Put(F1, metadata_path(op), metadata), D1, TRUE)

ModelProcess(F, D, ip, op, fault) == CopyProcess(F, D, ip, op, fault, ModelMetadata(ip))

AudioProcess(F, D, ip, op, fault) == CopyProcess(F, D, ip, op, fault, AudioMetadata(ip))

ShaderProcess(F, D, ip, op, fault) ==
    IF fault = "read" \/ ~ReadsAsText(F[ip]) THEN Result(F, D, FALSE)
    ELSE LET source == F[ip]
             D1 == D \cup Parents(op.dir)
             F1 == Put(F, op, source)
         IN  IF fault = "write" THEN Result(F, D1, FALSE)
             ELSE IF fault = "meta" THEN Result(F1, D1, FALSE)
             ELSE Result(Put(F1, metadata_path(op), ShaderMetadata(ip)), D1, TRUE)

process(p, F, D, ip, op, fault) ==
    CASE p = "texture" -> TextureProcess(F, D, ip, op, fault)
      [] p = "model"   -> ModelProcess(F, D, ip, op, fault)
      [] p = "audio"   -> AudioProcess(F, D, ip, op, fault)
      [] p = "shader"  -> ShaderProcess(F, D, ip, op, fault)

\* (variant) a file no processor owns is copied by the model processor
cook_asset_fallback(F, D, ip, op, fault) ==
    LET processor == get_processor(ip.name)
    IN  process(IF processor = "none" THEN "model" ELSE processor, F, D, ip, op, fault)

\* AssetCooker.cook_asset
cook_asset(F, D, ip, op, fault) ==
    LET processor == get_processor(ip.name)
    IN  IF processor = "none" THEN Result(F, D, FALSE)
        ELSE process(processor, F, D, ip, op, fault)

----------------------------------------------------------------------------
(* AssetCooker.cook_directory, one file of its loop at a time *)

\* (variant) the walk ignores `recursive` and always descends
Enumerate_always_recursive(F, d, rec) == {p \in DOMAIN F : IsPrefix(d, p.dir)}

\* (variant) the walk ignores `recursive` and never descends
Enumerate_never_recursive(F, d, rec) == {p \in DOMAIN F : p.dir = d}

\* the list `files`: rglob('*') or iterdir(), filtered by is_file()
Enumerate(F, d, rec) ==
    {p \in DOMAIN F : IF rec THEN IsPrefix(d, p.dir) ELSE p.dir = d}

\* (variant) the output keeps the file name only, not its directory
output_path_flat(f, ind, outd) == Path(outd, f.name)

\* output_dir / file_path.relative_to(input_dir)
output_path(f, ind, outd) == Path(outd \o relative_to(f.dir, ind), f.name)

\* (variant) the loop stays on the file it has just handled
Advance_stuck(V, f) == V

\* the for-loop moves on to the next file of the list
Advance(V, f) == V \cup {f}

\* (variant) the sidecar test is missing
IsMetadataFile_never(f) == FALSE

\* the test of `if file_path.suffix == '.json': continue`
IsMetadataFile(f) == Suffix(f.name) = "json"

\* the enumerated files with their contents
Tree(F, d, rec) == [p \in Enumerate(F, d, rec) |-> F[p]]

\* what the last completed operation was and returned (file: cook_asset's
\* input_path, dir: the directory it was given); `after` tells that a
\* manifest was built right after a completed cook_directory into the same tree
OpResult(op, ok, d, processed, failed, after) ==
    [op |-> op, ok |-> ok, dir |-> d, file |-> Path(<<>>, <<>>),
     processed |-> processed, failed |-> failed, after |-> after]

NoOp == OpResult("none", TRUE, <<>>, 0, 0, FALSE)
NoRun == [valid |-> FALSE, repeated |-> FALSE, written |-> <<>>]

\* what a run starting now with (ind, outd, rec) remembers of the run before it:
\* valid: a cook_directory has just returned; repeated: it had the same
\* arguments and enumerated the same files with the same contents; written:
\* the sidecars it wrote
LastRun(ind, outd, rec) ==
    LET valid == last.op = "cook_directory" /\ last.ok
    IN  [valid |-> valid,
         repeated |-> /\ valid
                      /\ ind = input_dir /\ outd = output_dir /\ rec = recursive
                      /\ Tree(fs, ind, rec) = Tree(fsAtStart, input_dir, recursive),
         written |-> IF valid THEN written ELSE <<>>]

\* how often the run has called cook_asset on f
Calls(L, f) == IF f \in DOMAIN L THEN L[f].calls ELSE 0

\* cook_directory on a directory that does not exist: returns 0, 0
CookDirectoryMissing(ind, outd, rec) ==
    /\ pc = "idle"
    /\ nops < MaxOps
    /\ ind \notin dirs
    /\ nops' = nops + 1
    /\ last' = OpResult("cook_directory", FALSE, ind, 0, 0, FALSE)
    /\ UNCHANGED <<fs, dirs, pc, input_dir, output_dir, recursive, files, visited,
                   log, processed_count, failed_count, fsAtStart, written, prev,
                   cookedBy, nfaults>>

\* cook_directory up to its for-loop: the counters and the list of files
StartCookDirectory(ind, outd, rec) ==
    /\ pc = "idle"
    /\ nops < MaxOps
    /\ ind \in dirs
    /\ nops' = nops + 1
    /\ pc' = "cooking"
    /\ input_dir' = ind
    /\ output_dir' = outd
    /\ recursive' = rec
    /\ files' = Enumerate(fs, ind, rec)
    /\ visited' = {}
    /\ log' = <<>>
    /\ processed_count' = 0
    /\ failed_count' = 0
    /\ fsAtStart' = fs
    /\ written' = <<>>
    /\ prev' = LastRun(ind, outd, rec)
    /\ last' = NoOp
    /\ UNCHANGED <<fs, dirs, cookedBy, nfaults>>

\* one iteration of the loop on a file with the suffix .json: continue
SkipMetadataFile(f) ==
    /\ pc = "cooking"
    /\ f \in files \ visited
    /\ IsMetadataFile(f)
    /\ visited' = Advance(visited, f)
    /\ UNCHANGED <<fs, dirs, pc, input_dir, output_dir, recursive, files, log,
                   processed_count, failed_count, fsAtStart, written, prev,
                   cookedBy, last, nops, nfaults>>

\* one iteration of the loop on any other file: cook_asset and a counter
CookFile(f, fault) ==
    /\ pc = "cooking"
    /\ f \in files \ visited
    /\ ~IsMetadataFile(f)
    /\ fault # "none" => nfaults < MaxFaults /\ get_processor(f.name) # "none"
    /\ LET out == output_path(f, input_dir, output_dir)
           r == cook_asset(fs, dirs, f, out, fault)
           processor == get_processor(f.name)
       IN  /\ fs' = r.fs
           /\ dirs' = r.dirs
           /\ log' = Put(log, f, [out |-> out, proc |-> processor, ok |-> r.ok,
                                   calls |-> Calls(log, f) + 1])
           /\ processed_count' = IF r.ok THEN processed_count + 1 ELSE processed_count
           /\ failed_count' = IF r.ok THEN failed_count ELSE failed_count + 1
           /\ written' = IF r.ok
                         THEN Put(written, metadata_path(out), r.fs[metadata_path(out)])
                         ELSE written
           /\ cookedBy' = IF r.ok
                          THEN Put(cookedBy, out, [source |-> f, proc |-> processor,
                                                   content |-> fs[f]])
                          ELSE cookedBy
    /\ visited' = Advance(visited, f)
    /\ nfaults' = IF fault = "none" THEN nfaults ELSE nfaults + 1
    /\ UNCHANGED <<pc, input_dir, output_dir, recursive, files, fsAtStart, prev,
                   last, nops>>

\* the loop is over: return processed_count, failed_count
FinishCookDirectory ==
    /\ pc = "cooking"
    /\ visited = files
    /\ pc' = "idle"
    /\ last' = OpResult("cook_directory", TRUE, input_dir, processed_count,
                         failed_count, FALSE)
    /\ UNCHANGED <<fs, dirs, input_dir, output_dir, recursive, files, visited, log,
                   processed_count, failed_count, fsAtStart, written, prev,
                   cookedBy, nops, nfaults>>

----------------------------------------------------------------------------
(* main's single-file mode: cook_asset(input_path, output_path) *)

CookAsset(f, out, fault) ==
    /\ pc = "idle"
    /\ nops < MaxOps
    /\ f \in DOMAIN fs
    /\ fault # "none" => nfaults < MaxFaults /\ get_processor(f.name) # "none"
    /\ LET r == cook_asset(fs, dirs, f, out, fault)
           processor == get_processor(f.name)
       IN  /\ fs' = r.fs
           /\ dirs' = r.dirs
           /\ cookedBy' = IF r.ok
                          THEN Put(cookedBy, out, [source |-> f, proc |-> processor,
                                                   content |-> fs[f]])
                          ELSE cookedBy
           /\ last' = [OpResult("cook_asset", r.ok, out.dir, 0, 0, FALSE) EXCEPT !.file = f]
    /\ nops' = nops + 1
    /\ nfaults' = IF fault = "none" THEN nfaults ELSE nfaults + 1
    /\ UNCHANGED <<pc, input_dir, output_dir, recursive, files, visited, log,
                   processed_count, failed_count, fsAtStart, written, prev>>

----------------------------------------------------------------------------
(* AssetCooker.generate_asset_manifest *)

manifest_name == <<"manifest", "json">>

\* output_dir.rglob('*.json')
MetadataFiles(F, outd) == {p \in DOMAIN F : IsPrefix(outd, p.dir) /\ Suffix(p.name) = "json"}

\* (variant) the manifest file is not skipped
Aggregated_no_self_exclusion(F, outd) ==
    {p \in MetadataFiles(F, outd) : ParsesAsJson(F[p])}

\* the files the loop does not skip by name and whose json.load succeeds
Aggregated(F, outd) ==
    {p \in MetadataFiles(F, outd) : p.name # manifest_name /\ ParsesAsJson(F[p])}

\* the record appended for a sidecar: its content and metadata['path']
AssetEntry(F, outd, p) ==
    [metadata |-> F[p], path |-> Path(relative_to(p.dir, outd), with_suffix(p.name, ""))]

\* the orders in which rglob may yield the files of S
Orders(S) ==
    {s \in [1..Cardinality(S) -> S] : \A i, j \in 1..Cardinality(S) : s[i] = s[j] => i = j}

Manifest(assets) ==
    [t |-> "manifest", version |-> "1.0", asset_count |-> Len(assets), assets |-> assets]

manifest_path(outd) == Path(outd, manifest_name)

ManifestResult(outd, ok) ==
    OpResult("manifest", ok, outd, 0, 0,
             last.op = "cook_directory" /\ last.ok /\ outd = output_dir)

\* open(manifest_path, 'w') or json.dump raises (the directory is missing, or a
\* transient fault): the outer except returns False
GenerateManifestFails(outd, fault) ==
    /\ pc = "idle"
    /\ nops < MaxOps
    /\ \/ outd \notin dirs /\ fault = "none"
       \/ outd \in dirs /\ fault = "write" /\ nfaults < MaxFaults
    /\ nops' = nops + 1
    /\ nfaults' = IF fault = "none" THEN nfaults ELSE nfaults + 1
    /\ last' = ManifestResult(outd, FALSE)
    /\ UNCHANGED <<fs, dirs, pc, input_dir, output_dir, recursive, files, visited,
                   log, processed_count, failed_count, fsAtStart, written, prev,
                   cookedBy>>

GenerateManifest(outd) ==
    /\ pc = "idle"
    /\ nops < MaxOps
    /\ outd \in dirs
    /\ \E order \in Orders(Aggregated(fs, outd)) :
          LET assets == [i \in 1..Len(order) |-> AssetEntry(fs, outd, order[i])]
          IN  fs' = Put(fs, manifest_path(outd), Manifest(assets))
    /\ nops' = nops + 1
    /\ last' = ManifestResult(outd, TRUE)
    /\ UNCHANGED <<dirs, pc, input_dir, output_dir, recursive, files, visited,
                   log, processed_count, failed_count, fsAtStart, written, prev,
                   cookedBy, nfaults>>

----------------------------------------------------------------------------
(* The input trees and the runs the model explores *)

In == <<"in">>
Out == <<"out">>
InSub == <<"in", "sub">>

\* a manifest left by an earlier generate_asset_manifest, listing a cooked
\* file whose sidecar has been removed since
StaleManifest ==
    Manifest(<< [metadata |-> ModelMetadata(Path(In, <<"gone", "obj">>)),
                 path |-> Path(<<>>, <<"gone">>)] >>)

\* candidate files of the input tree
Candidates ==
    { [path |-> Path(In, <<"a", "png">>),                content |-> Image("RGB", 1, 2)],
      [path |-> Path(In, <<"a", "obj">>),                content |-> Junk],
      [path |-> Path(In, <<"b", "frag">>),               content |-> Text],
      [path |-> Path(In, <<"c", "xyz">>),                content |-> Junk],
      [path |-> Path(In, <<"a", "json">>),               content |-> Junk],
      [path |-> Path(In, <<"B", "PNG">>),                content |-> Image("RGBA", 2, 1)],
      [path |-> Path(In, <<"d", "png">>),                content |-> Junk],
      [path |-> Path(In, <<"manifest", "png">>),         content |-> Image("RGB", 1, 1)],
      [path |-> Path(In, <<"manifest", "json", "png">>), content |-> Image("RGB", 1, 1)],
      [path |-> Path(In, <<"e", "JSON">>),               content |-> Junk],
      [path |-> Path(In, manifest_name),                 content |-> StaleManifest],
      [path |-> Path(InSub, <<"a", "png">>),             content |-> Image("RGB", 2, 2)] }

\* (input_dir, output_dir): disjoint, equal, output inside input, input inside
\* output (in/sub exists only when the tree has a file in it)
DirPairs == { <<In, Out>>, <<In, In>>, <<In, InSub>>, <<InSub, In>> }

ManifestDirs == {Out, In}

Init ==
    /\ \E T \in SUBSET Candidates :
          /\ Cardinality(T) <= MaxFiles
          /\ fs = [p \in {c.path : c \in T} |-> (CHOOSE c \in T : c.path = p).content]
          /\ dirs = {In} \cup UNION {Parents(c.path.dir) : c \in T}
    /\ pc = "idle"
    /\ input_dir = <<>>
    /\ output_dir = <<>>
    /\ recursive = FALSE
    /\ files = {}
    /\ visited = {}
    /\ log = <<>>
    /\ processed_count = 0
    /\ failed_count = 0
    /\ fsAtStart = <<>>
    /\ written = <<>>
    /\ prev = NoRun
    /\ cookedBy = <<>>
    /\ last = NoOp
    /\ nops = 0
    /\ nfaults = 0

Next ==
    \/ \E d \in DirPairs, rec \in BOOLEAN : CookDirectoryMissing(d[1], d[2], rec)
    \/ \E d \in DirPairs, rec \in BOOLEAN : StartCookDirectory(d[1], d[2], rec)
    \/ \E f \in files : SkipMetadataFile(f)
    \/ \E f \in files, fault \in Faults : CookFile(f, fault)
    \/ FinishCookDirectory
    \/ \E f \in Enumerate(fs, In, FALSE), fault \in Faults :
          CookAsset(f, Path(Out, f.name), fault)
    \/ \E outd \in ManifestDirs, fault \in {"none", "write"} : GenerateManifestFails(outd, fault)
    \/ \E outd \in ManifestDirs : GenerateManifest(outd)

Spec == Init /\ [][Next]_vars

\* one step of cook_directory's for-loop, or its return
LoopStep ==
    \/ \E f \in files : SkipMetadataFile(f)
    \/ \E f \in files, fault \in Faults : CookFile(f, fault)
    \/ FinishCookDirectory

\* the behaviours of at most MaxFairOps operations in which a running
\* cook_directory keeps executing: the loop is synchronous, nothing suspends it
FairNext == Next /\ nops' <= MaxFairOps

FairSpec == Init /\ [][FairNext]_vars /\ WF_vars(LoopStep)

----------------------------------------------------------------------------
(* Properties *)

RunCompleted == pc = "idle" /\ last.op = "cook_directory" /\ last.ok

\* the regular files under d at the start of the run, by traversal mode,
\* stated on the paths themselves
UnderMode(F, d, rec) ==
    {p \in DOMAIN F : /\ Len(p.dir) >= Len(d)
                      /\ \A k \in 1..Len(d) : p.dir[k] = d[k]
                      /\ ~rec => Len(p.dir) = Len(d)}

HasSidecarExtension(p) == Len(p.name) >= 2 /\ p.name[Len(p.name)] = "json"

NonSidecars(F, d, rec) == {p \in UnderMode(F, d, rec) : ~HasSidecarExtension(p)}

\* C1: when cook_directory returns, processed_count + failed_count is the
\* number of regular files enumerated under the traversal mode whose extension
\* is not .json, and each of them was counted exactly once, as processed or as
\* failed (a missing input directory returns 0, 0)
C1_CountsCoverEveryNonSidecar ==
    /\ RunCompleted =>
          LET N == NonSidecars(fsAtStart, input_dir, recursive)
          IN  /\ last.processed + last.failed = Cardinality(N)
              /\ DOMAIN log = N
              /\ \A f \in N : log[f].calls = 1
              /\ last.processed = Cardinality({f \in N : log[f].ok})
              /\ last.failed = Cardinality({f \in N : ~log[f].ok})
    /\ (last.op = "cook_directory" /\ ~last.ok) =>
          /\ last.processed + last.failed = 0
          /\ NonSidecars(fs, last.dir, TRUE) = {}

C1_Witness ==
    /\ RunCompleted
    /\ last.processed >= 1
    /\ last.failed >= 1
    /\ \E f \in files : HasSidecarExtension(f)

\* C5: with recursive = false only direct children of the input directory are
\* visited, passed to a processor, counted or given an output; with
\* recursive = true every regular file at any depth has been visited when the
\* run returns
C5_NonRecursiveStaysInDirectory ==
    /\ (pc = "cooking" \/ RunCompleted) /\ ~recursive =>
          /\ \A f \in visited \cup DOMAIN log : f.dir = input_dir
          /\ \A f \in DOMAIN log : log[f].out.dir = output_dir
          /\ processed_count + failed_count <=
                Cardinality({p \in DOMAIN fsAtStart : p.dir = input_dir})
    /\ RunCompleted /\ recursive =>
          \A p \in DOMAIN fsAtStart :
             (Len(p.dir) >= Len(input_dir) /\ SubSeq(p.dir, 1, Len(input_dir)) = input_dir)
                => p \in visited

C5_Witness ==
    /\ RunCompleted
    /\ ~recursive
    /\ last.processed >= 1
    /\ \E p \in DOMAIN fsAtStart :
          /\ Len(p.dir) > Len(input_dir)
          /\ SubSeq(p.dir, 1, Len(input_dir)) = input_dir
          /\ ~HasSidecarExtension(p)

\* the extensions some processor owns
OwnedExtensions ==
    {"png", "jpg", "jpeg", "bmp", "tga", "obj", "gltf", "glb", "fbx", "wav", "mp3",
     "ogg", "flac", "vert", "frag", "geom", "tesc", "tese", "comp"}

Unowned(p) == Lower(Suffix(p.name)) \notin OwnedExtensions

\* C6: on a file whose extension no processor owns, cook_asset returns failure
\* and changes neither the files nor the directories; cook_directory counts
\* the file as failed exactly once and keeps going with the remaining files
C6_UnownedExtensionFailsWithoutOutput ==
    /\ [][\A f \in files :
             (pc = "cooking" /\ f \notin visited /\ f \in visited'
                 /\ ~HasSidecarExtension(f) /\ Unowned(f))
             => /\ fs' = fs
                /\ dirs' = dirs
                /\ failed_count' = failed_count + 1
                /\ processed_count' = processed_count
                /\ f \in DOMAIN log' /\ ~log'[f].ok /\ log'[f].calls = 1
                /\ pc' = "cooking"]_vars
    /\ [][(last'.op = "cook_asset" /\ nops' = nops + 1 /\ Unowned(last'.file))
             => (fs' = fs /\ dirs' = dirs /\ ~last'.ok)]_vars
    /\ [](RunCompleted =>
             \A f \in NonSidecars(fsAtStart, input_dir, recursive) :
                f \in DOMAIN log /\ (Unowned(f) => ~log[f].ok /\ log[f].calls = 1))

C6_Witness ==
    /\ RunCompleted
    /\ last.processed >= 1
    /\ \E f \in DOMAIN log : Unowned(f) /\ ~log[f].ok /\ log[f].out \notin DOMAIN fs

\* C8: two files whose suffixes differ only in letter case are resolved to the
\* same processor (or both to none); .PNG goes to the texture processor
C8_ResolutionIgnoresCase ==
    /\ \A f, g \in DOMAIN log :
          Lower(Suffix(f.name)) = Lower(Suffix(g.name)) => log[f].proc = log[g].proc
    /\ \A f \in DOMAIN log :
          Suffix(f.name) \in {"png", "PNG"} => log[f].proc = "texture"

C8_Witness ==
    \E f, g \in DOMAIN log :
       /\ Suffix(f.name) = "png"
       /\ Suffix(g.name) = "PNG"
       /\ log[f].proc = "texture"
       /\ log[g].proc = "texture"

\* C9: cook_directory terminates whatever the placement of the output
\* directory and whichever files fail; no file is attempted twice, and when it
\* returns every enumerated non-sidecar file has been attempted, those after a
\* failed one included
C9_WalkCompletes ==
    /\ (pc = "cooking") ~> RunCompleted
    /\ [](\A f \in DOMAIN log : log[f].calls <= 1)
    /\ [](RunCompleted =>
             /\ DOMAIN log = NonSidecars(fsAtStart, input_dir, recursive)
             /\ last.processed + last.failed = Cardinality(DOMAIN log))

C9_Witness ==
    /\ RunCompleted
    /\ IsPrefix(input_dir, output_dir)
    /\ last.failed >= 1
    /\ last.processed >= 1
    /\ nfaults >= 1

\* C10: a file with the suffix .json is never passed to a processor, its turn
\* in the loop changes no file, no directory and no counter, and it is counted
\* neither as processed nor as failed, also when input and output overlap
C10_SidecarsAreNeverCooked ==
    /\ [](\A f \in DOMAIN log : ~HasSidecarExtension(f))
    /\ [](pc = "cooking" \/ RunCompleted =>
             processed_count + failed_count =
                Cardinality({f \in visited : ~HasSidecarExtension(f)}))
    /\ [][\A f \in files :
             (pc = "cooking" /\ f \notin visited /\ f \in visited' /\ HasSidecarExtension(f))
             => /\ fs' = fs
                /\ dirs' = dirs
                /\ processed_count' = processed_count
                /\ failed_count' = failed_count
                /\ log' = log]_vars

\* a second run over a tree that holds the sidecars the run before it wrote
C10_Witness ==
    /\ RunCompleted
    /\ prev.valid
    /\ \E p \in DOMAIN prev.written : p \in visited /\ p \notin DOMAIN log
    /\ last.processed >= 1

\* the sidecar of a cooked file: its name with the last segment replaced by json
SidecarOf(p) == [dir |-> p.dir, name |-> SubSeq(p.name, 1, Len(p.name) - 1) \o <<"json">>]

\* the record a cooked file should have: the metadata of its latest cook
DescribedBy(p, c) ==
    /\ c.t = "meta"
    /\ c.source = cookedBy[p].source
    /\ c.type = cookedBy[p].proc

\* no manifest has been written into the trees: only cook operations have
\* changed the files
OnlyCooked == \A p \in DOMAIN fs : fs[p].t # "manifest"

\* C2: after cook operations alone, every cooked output file has exactly one
\* metadata record, at its own path with the extension replaced by .json,
\* which describes that file, and no two cooked output files share a record
C2_EveryCookedFileHasItsOwnRecord ==
    OnlyCooked =>
       /\ \A p \in DOMAIN cookedBy :
             SidecarOf(p) \in DOMAIN fs /\ DescribedBy(p, fs[SidecarOf(p)])
       /\ \A p, q \in DOMAIN cookedBy : p # q => SidecarOf(p) # SidecarOf(q)

ManifestBuilt == pc = "idle" /\ last.op = "manifest" /\ last.ok

TheManifest == fs[Path(last.dir, <<"manifest", "json">>)]

\* C3 as claimed: after a successful generate_asset_manifest, asset_count is
\* len(assets) and no entry has the path manifest.json
C3_NoEntryPathIsManifestJson ==
    ManifestBuilt =>
       /\ TheManifest.asset_count = Len(TheManifest.assets)
       /\ \A i \in 1..Len(TheManifest.assets) :
             TheManifest.assets[i].path # Path(<<>>, <<"manifest", "json">>)

\* C3 as amended: after a successful generate_asset_manifest, asset_count is
\* len(assets) and no entry is built from a file named manifest.json: no
\* entry's path has the file name manifest (the manifest's name with its
\* extension stripped, as every entry's path is), in any directory
C3_CountMatchesAndManifestIsNoEntry ==
    ManifestBuilt =>
       /\ TheManifest.t = "manifest"
       /\ TheManifest.asset_count = Len(TheManifest.assets)
       /\ \A i \in 1..Len(TheManifest.assets) :
             TheManifest.assets[i].path.name # <<"manifest">>

\* a manifest with an entry, built over a tree that holds a file manifest.json
C3_Witness ==
    /\ ManifestBuilt
    /\ TheManifest.asset_count >= 1
    /\ \E p \in DOMAIN fsAtStart \cup DOMAIN cookedBy : p.name[1] = "manifest"

\* a manifest built right after a cook_directory into a tree that held no file
\* when the run started
ManifestOfFreshRun ==
    /\ ManifestBuilt
    /\ last.after
    /\ \A p \in DOMAIN fsAtStart : ~IsPrefix(output_dir, p.dir)

\* the path a cooked file should have in the manifest
StrippedRelative(out) ==
    [dir |-> SubSeq(out.dir, Len(output_dir) + 1, Len(out.dir)),
     name |-> SubSeq(out.name, 1, Len(out.name) - 1)]

\* C4: the manifest built after a cook_directory into an empty output tree has
\* asset_count = processed_count and exactly one entry for each cooked file,
\* with that file's root-relative, extension-stripped path
C4_ManifestListsEveryCookedAsset ==
    ManifestOfFreshRun =>
       /\ TheManifest.asset_count = processed_count
       /\ \A f \in DOMAIN log :
             log[f].ok =>
                Cardinality({i \in 1..Len(TheManifest.assets) :
                               TheManifest.assets[i].path = StrippedRelative(log[f].out)}) = 1

\* the run just completed repeats the run before it on an unchanged input tree
SecondRunCompleted == RunCompleted /\ prev.repeated

\* C7: after the second of two cook_directory runs on the same unchanged input
\* tree and output directory, every sidecar the first run wrote has the
\* content it had after the first run
C7_RecookKeepsSidecarContent ==
    SecondRunCompleted =>
       \A p \in DOMAIN prev.written : p \in DOMAIN fs /\ fs[p] = prev.written[p]

\* the files of the run whose sidecars fall on one path, or on the manifest's
SidecarsCollide ==
    \/ \E f, g \in DOMAIN log :
          f # g /\ SidecarOf(log[f].out) = SidecarOf(log[g].out)
    \/ \E f \in DOMAIN log : SidecarOf(log[f].out).name = <<"manifest", "json">>

\* C4 and C7 fail only through the collisions of C2: without them both hold
C4_HoldsWithoutCollision == ~SidecarsCollide => C4_ManifestListsEveryCookedAsset

C7_HoldsWithoutCollision == ~SidecarsCollide => C7_RecookKeepsSidecarContent

\* the output paths handed to cook_asset by the step: the file the loop of
\* cook_directory has just handled, or the argument of a single cook_asset
CookedByStep ==
    {log'[f].out : f \in (visited' \ visited) \cap DOMAIN log'}
       \cup (IF last'.op = "cook_asset" /\ nops' = nops + 1
             THEN {Path(last'.dir, last'.file.name)} ELSE {})

\* the cooked output paths whose sidecar still holds the record of their
\* latest successful cook
IntactSidecarOwners ==
    {o \in DOMAIN cookedBy :
        SidecarOf(o) \in DOMAIN fs /\ DescribedBy(o, fs[SidecarOf(o)])}

\* C11: the sidecar written by a successful cook of an output path is neither
\* changed nor removed by any step but a cook of that same output path:
\* cooking another output path and generate_asset_manifest leave it as it is,
\* and generate_asset_manifest writes the manifest file only
C11_SidecarChangesOnlyByRecook ==
    /\ [][\A o \in IntactSidecarOwners :
             o \notin CookedByStep =>
                SidecarOf(o) \in DOMAIN fs' /\ fs'[SidecarOf(o)] = fs[SidecarOf(o)]]_vars
    /\ [][(last'.op = "manifest" /\ nops' = nops + 1) =>
             /\ DOMAIN fs' \subseteq DOMAIN fs \cup {manifest_path(last'.dir)}
             /\ \A p \in DOMAIN fs : p # manifest_path(last'.dir) => fs'[p] = fs[p]]_vars

\* C11 fails only through the collisions of C2: a sidecar is changed by a cook
\* of another output path or by the manifest only when that path's sidecar, or
\* the manifest, falls on the same path
C11_HoldsWithoutCollision ==
    [][\A o \in IntactSidecarOwners :
          o \notin CookedByStep =>
             \/ SidecarOf(o) \in DOMAIN fs' /\ fs'[SidecarOf(o)] = fs[SidecarOf(o)]
             \/ \E q \in CookedByStep : SidecarOf(q) = SidecarOf(o)
             \/ last'.op = "manifest" /\ manifest_path(last'.dir) = SidecarOf(o)]_vars

\* the step is a generate_asset_manifest that returns True
ManifestStep == last'.op = "manifest" /\ last'.ok /\ nops' = nops + 1

\* the files with the sidecar extension under d that json.load accepts
ParsingSidecars(F, d) ==
    {p \in DOMAIN F : /\ Len(p.dir) >= Len(d)
                      /\ SubSeq(p.dir, 1, Len(d)) = d
                      /\ HasSidecarExtension(p)
                      /\ F[p].t \in {"meta", "manifest"}}

\* the entry a sidecar should have in the manifest of d: its record, with its
\* path relative to d and without the sidecar extension
EntryOf(F, d, p) ==
    [metadata |-> F[p],
     path |-> [dir |-> SubSeq(p.dir, Len(d) + 1, Len(p.dir)),
               name |-> SubSeq(p.name, 1, Len(p.name) - 1)]]

\* the assets list is made of exactly one entry for each file of S
ListsExactly(assets, F, d, S) ==
    /\ Len(assets) = Cardinality(S)
    /\ \A p \in S : Cardinality({i \in 1..Len(assets) : assets[i] = EntryOf(F, d, p)}) = 1

\* C12: a successful generate_asset_manifest writes a manifest whose assets
\* list has exactly one entry for each sidecar under the output directory that
\* parses, the manifest file of that directory excepted; sidecars that do not
\* parse are skipped, and nothing of the manifest it replaces is kept
C12_ManifestListsEveryParsingSidecar ==
    [][ManifestStep =>
          LET d == last'.dir
              M == fs'[manifest_path(d)]
          IN  /\ M.t = "manifest"
              /\ ListsExactly(M.assets, fs, d, ParsingSidecars(fs, d) \ {manifest_path(d)})]_vars

\* C12 fails only on sidecars named manifest.json below the output directory:
\* the assets list has exactly one entry for each parsing sidecar that is not
\* named manifest.json
C12_HoldsApartFromFilesNamedManifest ==
    [][ManifestStep =>
          LET d == last'.dir
              M == fs'[manifest_path(d)]
          IN  /\ M.t = "manifest"
              /\ ListsExactly(M.assets, fs, d,
                              {p \in ParsingSidecars(fs, d) : p.name # <<"manifest", "json">>})]_vars

\* the directory of f below the input directory of the run
BelowInput(f) == [k \in 1..(Len(f.dir) - Len(input_dir)) |-> f.dir[Len(input_dir) + k]]

\* C13: the output path cook_directory hands to the processor for a file is
\* the output directory, then the file's directories below the input
\* directory, then the file's name unchanged; two different input files of a
\* run never get the same output path
C13_OutputPathMirrorsRelativePath ==
    /\ \A f \in DOMAIN log :
          /\ log[f].out.name = f.name
          /\ log[f].out.dir = output_dir \o BelowInput(f)
    /\ \A f, g \in DOMAIN log : f # g => log[f].out # log[g].out

\* a recursive run that has cooked two files of the same name from different
\* directories
C13_Witness ==
    /\ RunCompleted
    /\ \E f, g \in DOMAIN log :
          /\ f.name = g.name
          /\ f.dir # g.dir
          /\ log[f].ok /\ log[g].ok
          /\ log[f].out.dir # log[g].out.dir

====
